---- MODULE Spec2Model ----
(***************************************************************************)
(* The interval recorder of the renderer (startIntervalRecording,          *)
(* stopIntervalRecording, processAudioChunk): an rxjs pipeline             *)
(*   audio_stream().pipe(buffer(interval(30 s)), takeUntil(stopSubject))   *)
(* whose next handler starts one asynchronous processAudioChunk per        *)
(* non-empty window.  Every session (one call of startIntervalRecording    *)
(* that passes its guard) creates one pipeline; pipelines are numbered in  *)
(* creation order and a reference to a Subject or a Subscription is the    *)
(* number of the pipeline it belongs to.                                   *)
(***************************************************************************)
EXTENDS Naturals, Integers, Sequences, FiniteSets

\* Bounds of the model.
MaxSessions == 2
MaxChunks == 2
MaxTicks == 2
\* Inputs of resampleAudio: every sample sequence of at most MaxLen samples,
\* and one sequence of each length up to MaxLongLen.
MaxLen == 2
MaxLongLen == 9
\* The longest round trip of an inference call, in milliseconds.
MaxElapsed == 2
\* The longest array that result.text holds.
MaxItems == 2

\* null / undefined of a reference.
Null == 0

VARIABLES
    isRecording,            \* let isRecording
    recordingSubscription,  \* let recordingSubscription: pipeline number or Null
    stopRecordingSubject,   \* window.stopRecordingSubject: pipeline number or Null
    transcriptionResults,   \* let transcriptionResults
    resultsContainer,       \* children of #transcriptionResults, first child first
    pipes,                  \* the pipelines created so far, one per session
    tasks,                  \* the processAudioChunk invocations started so far
    nextChunk,              \* number of the next chunk the capture source delivers
    nticks,                 \* interval ticks fired so far
    lastCall,               \* history: "start" or "stop" after a call of that handler, else "event"
    emptyChunks,            \* the numbers of the delivered chunks that hold no sample
    resampler,              \* one call of resampleAudio: arguments, locals, position
    transcribeCall,         \* one call of nodeAPI.transcribeAudio: response, position, outcome
    uiUpdate                \* one call of updateTranscriptionUI: result.text and the text shown

progVars == <<isRecording, recordingSubscription, stopRecordingSubject,
              transcriptionResults, resultsContainer, pipes, tasks>>
sessionVars == <<isRecording, recordingSubscription, stopRecordingSubject,
                 transcriptionResults, resultsContainer, pipes>>
vars == <<isRecording, recordingSubscription, stopRecordingSubject,
          transcriptionResults, resultsContainer, pipes, tasks,
          nextChunk, nticks, lastCall>>
\* The state of the recorder, and the state its handlers never touch.
recorderVars == vars
callVars == <<transcribeCall, uiUpdate>>
auxVars == <<emptyChunks, resampler, callVars>>
allVars == <<recorderVars, auxVars>>

----------------------------------------------------------------------------
\* Helpers on sequences.

RECURSIVE Flatten(_)
Flatten(ss) == IF ss = <<>> THEN <<>> ELSE Head(ss) \o Flatten(Tail(ss))

Range(s) == {s[i] : i \in 1..Len(s)}

----------------------------------------------------------------------------
\* The rxjs pipeline of one session.

\* A pipeline right after subscribe(): the capture source is subscribed, the
\* interval timer is armed and buffer()'s currentBuffer is empty.
NewPipe ==
    [subscribed |-> TRUE, timer |-> TRUE, currentBuffer |-> <<>>,
     stream |-> <<>>, discarded |-> <<>>, ended |-> "no"]

\* What subscribing to audio_stream() can do before subscribe() returns: open
\* the capture, or signal an error to the subscriber at once.
SubscribeOutcomes == {"open", "error"}

\* A pipeline whose source signalled an error inside subscribe(): the
\* subscriber is closed, nothing is subscribed and no timer is armed.
ErroredPipe ==
    [subscribed |-> FALSE, timer |-> FALSE, currentBuffer |-> <<>>,
     stream |-> <<>>, discarded |-> <<>>, ended |-> "error"]

\* Finalization of the pipeline: the source and the interval are unsubscribed
\* and buffer() releases currentBuffer without emitting it.
Teardown(p, why) ==
    [p EXCEPT !.subscribed = FALSE, !.timer = FALSE,
              !.discarded = p.currentBuffer, !.currentBuffer = <<>>,
              !.ended = why]

\* stopSubject.next(); stopSubject.complete(): takeUntil completes the
\* subscriber and finalizes the pipeline the subject belongs to.
FireStopSubject(ps, k) ==
    IF k # Null /\ ps[k].subscribed
    THEN [ps EXCEPT ![k] = Teardown(@, "stop")]
    ELSE ps

\* recordingSubscription.unsubscribe(): a no-op on a closed subscription.
Unsubscribe(ps, k) ==
    IF k # Null /\ ps[k].subscribed
    THEN [ps EXCEPT ![k] = Teardown(@, "stop")]
    ELSE ps

----------------------------------------------------------------------------
\* processAudioChunk up to its first await.  The chunks are concatenated and
\* resampled synchronously; renderAudioToWav is called and awaited.  An
\* exception in the synchronous part is caught and the invocation returns null.
ProcessAudioChunk(ts, s, chunks, ok) ==
    Append(ts, [sess |-> s, window |-> chunks,
                pc |-> IF ok THEN "encode" ELSE "done",
                called |-> IF ok THEN {"resample", "encode"} ELSE {"resample"},
                failedAt |-> IF ok THEN "none" ELSE "resample",
                ret |-> IF ok THEN "pending" ELSE "null"])

\* A next handler without the length check.
NextHandlerNoSkip(ts, s, chunks, ok) == ProcessAudioChunk(ts, s, chunks, ok)

\* The next handler of the subscription: an empty window is skipped.
NextHandler(ts, s, chunks, ok) ==
    IF Len(chunks) = 0 THEN ts ELSE ProcessAudioChunk(ts, s, chunks, ok)

\* The catch block of processAudioChunk: the invocation resolves to null.
CatchError(t, step) ==
    [t EXCEPT !.pc = "done", !.ret = "null", !.failedAt = step]

----------------------------------------------------------------------------
\* IEEE-754 double arithmetic, as far as resampleAudio uses it.  A natural
\* number below LimbBase^Limbs is a tuple of Limbs limbs, least significant
\* first; a positive double is [m, e] with value m * 2^e and
\* 2^52 <= m < 2^53, and zero is [m |-> BigZero, e |-> 0].

LimbBase == 32768
Limbs == 5
MantissaBits == 53

\* The limbs of f as a tuple of values.
RECURSIVE LimbsFrom(_, _)
LimbsFrom(f, i) == IF i > Limbs THEN <<>> ELSE <<f[i]>> \o LimbsFrom(f, i + 1)
LimbTuple(f) == LimbsFrom(f, 1)

BigOfInt(n) ==
    LimbTuple([i \in 1..Limbs |->
        IF i = 1 THEN n % LimbBase
        ELSE IF i = 2 THEN (n \div LimbBase) % LimbBase
        ELSE 0])
BigZero == BigOfInt(0)
BigToInt(a) == a[1] + LimbBase * a[2]

BigGE(a, b) ==
    LET ge[i \in 0..Limbs] ==
          IF i = 0 THEN TRUE
          ELSE IF a[i] > b[i] THEN TRUE
          ELSE IF a[i] < b[i] THEN FALSE
          ELSE ge[i - 1]
    IN ge[Limbs]

BigSub(a, b) ==
    LET borrow[i \in 0..Limbs] ==
          IF i = 0 THEN 0
          ELSE IF a[i] - b[i] - borrow[i - 1] < 0 THEN 1 ELSE 0
    IN LimbTuple([i \in 1..Limbs |-> (a[i] - b[i] - borrow[i - 1] + LimbBase) % LimbBase])

BigMulSmall(a, k) ==
    LET carry[i \in 0..Limbs] ==
          IF i = 0 THEN 0 ELSE (a[i] * k + carry[i - 1]) \div LimbBase
    IN LimbTuple([i \in 1..Limbs |-> (a[i] * k + carry[i - 1]) % LimbBase])

BigDouble(a) == BigMulSmall(a, 2)

BigAddSmall(a, k) ==
    LET carry[i \in 0..Limbs] ==
          IF i = 0 THEN k ELSE (a[i] + carry[i - 1]) \div LimbBase
    IN LimbTuple([i \in 1..Limbs |-> (a[i] + carry[i - 1]) % LimbBase])

BigHalve(a) ==
    LimbTuple([i \in 1..Limbs |->
        (a[i] + (IF i < Limbs THEN LimbBase * (a[i + 1] % 2) ELSE 0)) \div 2])

BigOdd(a) == a[1] % 2 = 1

LimbBits == 15
RECURSIVE Pow2(_)
Pow2(n) == IF n = 0 THEN 1 ELSE 2 * Pow2(n - 1)
BigPow2(n) ==
    LimbTuple([i \in 1..Limbs |-> IF i = (n \div LimbBits) + 1 THEN Pow2(n % LimbBits) ELSE 0])

\* Round the value m * 2^e, of which `guard` is the bit just below m and
\* `sticky` tells whether a lower bit is set, to MantissaBits bits, to nearest
\* and ties to even.
RECURSIVE RoundToDouble(_, _, _, _)
RoundToDouble(m, e, guard, sticky) ==
    IF BigGE(m, BigPow2(MantissaBits))
    THEN RoundToDouble(BigHalve(m), e + 1, BigOdd(m), sticky \/ guard)
    ELSE IF guard /\ (sticky \/ BigOdd(m))
         THEN LET up == BigAddSmall(m, 1) IN
              IF BigGE(up, BigPow2(MantissaBits))
              THEN [m |-> BigHalve(up), e |-> e + 1]
              ELSE [m |-> up, e |-> e]
         ELSE [m |-> m, e |-> e]

\* `count` more bits of the quotient by b, from d = [rem, q], where rem < 2b
\* is the remainder so far, doubled, and q holds the bits so far.
RECURSIVE QuotientBits(_, _, _)
QuotientBits(d, b, count) ==
    IF count = 0 THEN d
    ELSE IF BigGE(d.rem, b)
         THEN QuotientBits([rem |-> BigDouble(BigSub(d.rem, b)),
                            q |-> BigAddSmall(BigDouble(d.q), 1)], b, count - 1)
         ELSE QuotientBits([rem |-> BigDouble(d.rem), q |-> BigDouble(d.q)], b, count - 1)

RECURSIVE ScaleUp(_, _, _)
ScaleUp(a, b, k) == IF BigGE(a, b) THEN [a |-> a, k |-> k] ELSE ScaleUp(BigDouble(a), b, k + 1)

RECURSIVE ScaleDown(_, _, _)
ScaleDown(a, b, k) ==
    IF BigGE(a, BigDouble(b)) THEN ScaleDown(a, BigDouble(b), k + 1) ELSE [b |-> b, k |-> k]

\* The double nearest to a / b, for natural numbers a >= 0 and b > 0 given
\* as tuples of limbs.
DoubleQuotient(a, b) ==
    IF a = BigZero THEN [m |-> BigZero, e |-> 0]
    ELSE LET up == ScaleUp(a, b, 0)
             down == ScaleDown(up.a, b, 0)
             d == QuotientBits([rem |-> up.a, q |-> BigZero], down.b, MantissaBits)
             e == down.k - up.k - (MantissaBits - 1)
         IN RoundToDouble(d.q, e, BigGE(d.rem, down.b), d.rem # down.b /\ d.rem # BigZero)

\* u / w in double arithmetic.
DoubleDiv(u, w) ==
    IF u.m = BigZero THEN u
    ELSE LET q == DoubleQuotient(u.m, w.m) IN [m |-> q.m, e |-> q.e + u.e - w.e]

\* The double of a natural number below 2^30.
RECURSIVE Normalized(_, _)
Normalized(m, e) ==
    IF BigGE(m, BigPow2(MantissaBits - 1)) THEN [m |-> m, e |-> e]
    ELSE Normalized(BigDouble(m), e - 1)
DoubleOfInt(n) == IF n = 0 THEN [m |-> BigZero, e |-> 0] ELSE Normalized(BigOfInt(n), 0)

\* k * u in double arithmetic, for a natural number k below LimbBase.
DoubleMulInt(k, u) ==
    IF k = 0 \/ u.m = BigZero THEN [m |-> BigZero, e |-> 0]
    ELSE RoundToDouble(BigMulSmall(u.m, k), u.e, FALSE, FALSE)

\* The integer part of a double below 2^30, the bit of weight 1/2 and whether
\* the fractional part is not zero, from p = [m, e, half, frac].
RECURSIVE Parts(_)
Parts(p) ==
    IF p.e = 0 THEN [int |-> BigToInt(p.m), half |-> p.half, frac |-> p.frac]
    ELSE IF p.e > 0
         THEN Parts([m |-> BigDouble(p.m), e |-> p.e - 1, half |-> FALSE, frac |-> FALSE])
         ELSE Parts([m |-> BigHalve(p.m), e |-> p.e + 1, half |-> BigOdd(p.m),
                     frac |-> p.frac \/ BigOdd(p.m)])
DoubleParts(u) == Parts([m |-> u.m, e |-> u.e, half |-> FALSE, frac |-> FALSE])

\* Math.floor and Math.round (to nearest, ties towards +Infinity) of a double
\* that is not negative.
MathFloor(u) == DoubleParts(u).int
MathRound(u) == LET p == DoubleParts(u) IN IF p.half THEN p.int + 1 ELSE p.int

----------------------------------------------------------------------------
\* resampleAudio.  A sample is a small integer standing for a Float32 value.
\* An element of the result is [lo, hi, exact]: the value
\* lo * (1 - fraction) + hi * fraction, where exact tells that fraction is 0;
\* a sample that is copied has lo = hi and exact = TRUE.

DEVICE_SAMPLE_RATE == 44100
TARGET_SAMPLE_RATE == 8000

\* No call of resampleAudio is being followed.
NoResampleCall ==
    [pc |-> "idle", audioData |-> <<>>, originalSampleRate |-> 0,
     targetSampleRate |-> 0, ratio |-> DoubleOfInt(0), newLength |-> 0,
     result |-> <<>>, indexes |-> <<>>, indexesRead |-> {}]

Copied(v) == [lo |-> v, hi |-> v, exact |-> TRUE]

\* const ratio = originalSampleRate / targetSampleRate
Ratio(originalSampleRate, targetSampleRate) ==
    DoubleDiv(DoubleOfInt(originalSampleRate), DoubleOfInt(targetSampleRate))

\* A length computed with Math.floor in the place of Math.round.
NewLengthFloor(length, ratio) == MathFloor(DoubleDiv(DoubleOfInt(length), ratio))

\* const newLength = Math.round(audioData.length / ratio)
NewLength(length, ratio) == MathRound(DoubleDiv(DoubleOfInt(length), ratio))

\* A loop body whose clamp test is index >= audioData.length: the element
\* after the last one is read, and what is read there is undefined.
InterpolateLateClamp(audioData, ratio, i) ==
    LET p == DoubleParts(DoubleMulInt(i, ratio))
        length == Len(audioData)
    IN IF p.int >= length
       THEN [index |-> p.int, sample |-> Copied(audioData[length]), reads |-> {length - 1}]
       ELSE [index |-> p.int,
             sample |-> [lo |-> audioData[p.int + 1],
                         hi |-> IF p.int + 2 <= length THEN audioData[p.int + 2] ELSE 0,
                         exact |-> ~p.frac],
             reads |-> {p.int, p.int + 1}]

\* A loop body that takes position = (i + 1) * ratio.
InterpolateNextPosition(audioData, ratio, i) ==
    LET p == DoubleParts(DoubleMulInt(i + 1, ratio))
        length == Len(audioData)
    IN IF p.int >= length - 1
       THEN [index |-> p.int, sample |-> Copied(audioData[length]), reads |-> {length - 1}]
       ELSE [index |-> p.int,
             sample |-> [lo |-> audioData[p.int + 1], hi |-> audioData[p.int + 2],
                         exact |-> ~p.frac],
             reads |-> {p.int, p.int + 1}]

\* The body of the loop for output index i: index = Math.floor(position), the
\* element written to result[i] and the indexes of audioData that are read,
\* counted from 0.
Interpolate(audioData, ratio, i) ==
    LET p == DoubleParts(DoubleMulInt(i, ratio))
        length == Len(audioData)
    IN IF p.int >= length - 1
       THEN [index |-> p.int, sample |-> Copied(audioData[length]), reads |-> {length - 1}]
       ELSE [index |-> p.int,
             sample |-> [lo |-> audioData[p.int + 1], hi |-> audioData[p.int + 2],
                         exact |-> ~p.frac],
             reads |-> {p.int, p.int + 1}]

----------------------------------------------------------------------------
\* The renderer after the module is loaded.
RecorderInit ==
    /\ isRecording = FALSE
    /\ recordingSubscription = Null
    /\ stopRecordingSubject = Null
    /\ transcriptionResults = <<>>
    /\ resultsContainer = <<>>
    /\ pipes = <<>>
    /\ tasks = <<>>
    /\ nextChunk = 1
    /\ nticks = 0
    /\ lastCall = "init"
    /\ emptyChunks = {}

\* No call of nodeAPI.transcribeAudio and none of updateTranscriptionUI is
\* being followed.
\* A JSON object of the service, as far as the code looks at it: each field is
\* <<>> when the object lacks it and <<v>> when it has the value v.
NoFields == [text |-> <<>>, confidence |-> <<>>, duration |-> <<>>]
NoResponse == [body |-> "none", value |-> "none", fields |-> NoFields]
NoTranscribeCall ==
    [pc |-> "idle", sends |-> 0, data |-> NoResponse, duration |-> 0,
     settled |-> "pending", error |-> "none", result |-> NoFields, returned |-> "pending"]
\* A value of result.text: kind tells which of str, num, items (of an array)
\* and members (of an object, pairs of a key and a number) is meant.
JsonValue(kind, str, num, items, members) ==
    [kind |-> kind, str |-> str, num |-> num, items |-> items, members |-> members]
Undefined == JsonValue("undefined", "", 0, <<>>, <<>>)
NoUiUpdate == [pc |-> "idle", container |-> TRUE, text |-> Undefined, transcribedText |-> ""]
NoCalls == transcribeCall = NoTranscribeCall /\ uiUpdate = NoUiUpdate

Init ==
    /\ RecorderInit
    /\ resampler = NoResampleCall
    /\ NoCalls

\* A start without the isRecording guard: a second pipeline is subscribed and
\* the results are cleared while a session is running.
StartWithoutGuard ==
    /\ lastCall' = "start"
    /\ UNCHANGED auxVars
    /\ UNCHANGED <<tasks, nextChunk, nticks>>
    /\ Len(pipes) < MaxSessions
    /\ isRecording' = TRUE
    /\ transcriptionResults' = <<>>
    /\ resultsContainer' = <<>>
    /\ pipes' = Append(pipes, NewPipe)
    /\ recordingSubscription' = Len(pipes) + 1
    /\ stopRecordingSubject' = Len(pipes) + 1

\* A start that keeps the results of the previous session.
StartKeepsResults ==
    /\ lastCall' = "start"
    /\ UNCHANGED auxVars
    /\ UNCHANGED <<tasks, nextChunk, nticks>>
    /\ IF isRecording
       THEN UNCHANGED sessionVars
       ELSE /\ Len(pipes) < MaxSessions
            /\ isRecording' = TRUE
            /\ UNCHANGED <<transcriptionResults, resultsContainer>>
            /\ pipes' = Append(pipes, NewPipe)
            /\ recordingSubscription' = Len(pipes) + 1
            /\ stopRecordingSubject' = Len(pipes) + 1

\* startIntervalRecording(): the click handler of the start button.  When the
\* capture source signals its error inside subscribe(), the error handler runs
\* stopIntervalRecording() before subscribe() returns: it sees the references
\* stored by the previous session, and the assignments of
\* recordingSubscription and window.stopRecordingSubject come after it.
StartIntervalRecording ==
    /\ lastCall' = "start"
    /\ UNCHANGED auxVars
    /\ UNCHANGED <<tasks, nextChunk, nticks>>
    /\ IF isRecording
       THEN UNCHANGED sessionVars
       ELSE /\ Len(pipes) < MaxSessions
            /\ transcriptionResults' = <<>>
            /\ resultsContainer' = <<>>
            /\ recordingSubscription' = Len(pipes) + 1
            /\ stopRecordingSubject' = Len(pipes) + 1
            /\ \E outcome \in SubscribeOutcomes :
                  IF outcome = "open"
                  THEN /\ isRecording' = TRUE
                       /\ pipes' = Append(pipes, NewPipe)
                  ELSE /\ isRecording' = FALSE
                       /\ pipes' = Append(Unsubscribe(
                                             FireStopSubject(pipes, stopRecordingSubject),
                                             recordingSubscription),
                                          ErroredPipe)

\* A stop that only clears the flag and the stored references: the stop
\* subject is not fired and the subscription is not unsubscribed.
StopEffectsNoCancel(ps) ==
    /\ pipes' = ps
    /\ tasks' = tasks
    /\ stopRecordingSubject' = Null
    /\ recordingSubscription' = Null
    /\ isRecording' = FALSE

\* A stop that flushes: the chunks buffered at the moment of the stop are
\* handed to the next handler before the pipeline is finalized.
StopEffectsFlush(ps) ==
    /\ pipes' = Unsubscribe(FireStopSubject(ps, stopRecordingSubject),
                            recordingSubscription)
    /\ tasks' = IF stopRecordingSubject # Null
                THEN NextHandler(tasks, stopRecordingSubject,
                                 ps[stopRecordingSubject].currentBuffer, TRUE)
                ELSE tasks
    /\ stopRecordingSubject' = Null
    /\ recordingSubscription' = Null
    /\ isRecording' = FALSE

\* A stop that also abandons the invocations in flight: each resolves to null
\* without a further call.
StopEffectsCancelsTasks(ps) ==
    /\ pipes' = Unsubscribe(FireStopSubject(ps, stopRecordingSubject),
                            recordingSubscription)
    /\ tasks' = [i \in 1..Len(tasks) |->
                    IF tasks[i].ret = "pending"
                    THEN [tasks[i] EXCEPT !.pc = "done", !.ret = "null"]
                    ELSE tasks[i]]
    /\ stopRecordingSubject' = Null
    /\ recordingSubscription' = Null
    /\ isRecording' = FALSE

\* The body of stopIntervalRecording() past its guard, run on pipelines ps:
\* the stored stop subject is fired and cleared, the stored subscription is
\* unsubscribed and cleared, the flag is reset.  No invocation is started.
StopEffects(ps) ==
    /\ pipes' = Unsubscribe(FireStopSubject(ps, stopRecordingSubject),
                            recordingSubscription)
    /\ tasks' = tasks
    /\ stopRecordingSubject' = Null
    /\ recordingSubscription' = Null
    /\ isRecording' = FALSE

\* A stop that also empties the result list.
StopIntervalRecordingClearsResults ==
    /\ lastCall' = "stop"
    /\ UNCHANGED auxVars
    /\ UNCHANGED <<resultsContainer, nextChunk, nticks>>
    /\ IF ~isRecording
       THEN UNCHANGED <<isRecording, recordingSubscription, stopRecordingSubject,
                        pipes, tasks, transcriptionResults>>
       ELSE /\ StopEffects(pipes)
            /\ transcriptionResults' = <<>>

\* stopIntervalRecording(): the click handler of the stop button.
StopIntervalRecording ==
    /\ lastCall' = "stop"
    /\ UNCHANGED auxVars
    /\ UNCHANGED <<transcriptionResults, resultsContainer, nextChunk, nticks>>
    /\ IF ~isRecording
       THEN UNCHANGED <<isRecording, recordingSubscription, stopRecordingSubject,
                        pipes, tasks>>
       ELSE StopEffects(pipes)

\* The capture source delivers a chunk to pipeline s: buffer() pushes it on
\* currentBuffer and nothing is emitted downstream.
Deliver(s) ==
    /\ pipes[s].subscribed
    /\ pipes' = [pipes EXCEPT ![s].currentBuffer = Append(@, nextChunk),
                              ![s].stream = Append(@, nextChunk)]
    /\ nextChunk' = nextChunk + 1
    /\ lastCall' = "event"
    /\ UNCHANGED <<isRecording, recordingSubscription, stopRecordingSubject,
                   transcriptionResults, resultsContainer, tasks, nticks>>

\* A chunk that holds at least one sample arrives, within the bound.
Chunk(s) ==
    /\ nextChunk <= MaxChunks
    /\ Deliver(s)
    /\ UNCHANGED auxVars

\* A tick that emits the buffer without starting a new one.
TickKeepsBuffer(s) ==
    /\ pipes[s].subscribed
    /\ pipes[s].timer
    /\ nticks < MaxTicks
    /\ \E ok \in BOOLEAN :
          tasks' = NextHandler(tasks, s, pipes[s].currentBuffer, ok)
    /\ pipes' = pipes
    /\ nticks' = nticks + 1
    /\ lastCall' = "event"
    /\ UNCHANGED auxVars
    /\ UNCHANGED <<isRecording, recordingSubscription, stopRecordingSubject,
                   transcriptionResults, resultsContainer, nextChunk>>

\* A tick whose handoff waits until the earlier invocations have settled.
TickAwaitsPrevious(s) ==
    /\ pipes[s].subscribed
    /\ pipes[s].timer
    /\ nticks < MaxTicks
    /\ \A i \in 1..Len(tasks) : tasks[i].pc = "done"
    /\ \E ok \in BOOLEAN :
          tasks' = NextHandler(tasks, s, pipes[s].currentBuffer, ok)
    /\ pipes' = [pipes EXCEPT ![s].currentBuffer = <<>>]
    /\ nticks' = nticks + 1
    /\ lastCall' = "event"
    /\ UNCHANGED auxVars
    /\ UNCHANGED <<isRecording, recordingSubscription, stopRecordingSubject,
                   transcriptionResults, resultsContainer, nextChunk>>

\* The interval of pipeline s fires: buffer() emits currentBuffer and starts a
\* new one; the next handler runs up to its first await and is not awaited.
Emit(s) ==
    /\ pipes[s].subscribed
    /\ pipes[s].timer
    /\ \E ok \in BOOLEAN :
          tasks' = NextHandler(tasks, s, pipes[s].currentBuffer, ok)
    /\ pipes' = [pipes EXCEPT ![s].currentBuffer = <<>>]
    /\ nticks' = nticks + 1
    /\ lastCall' = "event"
    /\ UNCHANGED auxVars
    /\ UNCHANGED <<isRecording, recordingSubscription, stopRecordingSubject,
                   transcriptionResults, resultsContainer, nextChunk>>

\* A tick of pipeline s, within the bound.
Tick(s) ==
    /\ nticks < MaxTicks
    /\ Emit(s)

\* renderAudioToWav settles for invocation i: on success writeFile is called
\* and awaited.
EncodeSettled(i) ==
    /\ tasks[i].pc = "encode"
    /\ \E ok \in BOOLEAN :
          tasks' = [tasks EXCEPT ![i] =
                      IF ok THEN [@ EXCEPT !.pc = "persist",
                                           !.called = @ \cup {"persist"}]
                            ELSE CatchError(@, "encode")]
    /\ lastCall' = "event"
    /\ UNCHANGED auxVars
    /\ UNCHANGED <<sessionVars, nextChunk, nticks>>

\* A best-effort write: transcribeAudio is called whether or not writeFile
\* succeeded.
PersistSettledBestEffort(i) ==
    /\ tasks[i].pc = "persist"
    /\ \E ok \in BOOLEAN :
          tasks' = [tasks EXCEPT ![i] =
                      [@ EXCEPT !.pc = "inference",
                                !.called = @ \cup {"inference"},
                                !.failedAt = IF ok THEN "none" ELSE "persist"]]
    /\ lastCall' = "event"
    /\ UNCHANGED auxVars
    /\ UNCHANGED <<sessionVars, nextChunk, nticks>>

\* writeFile settles for invocation i: on success transcribeAudio is called
\* and awaited; a rejection is caught by the catch block.
PersistSettled(i) ==
    /\ tasks[i].pc = "persist"
    /\ \E ok \in BOOLEAN :
          tasks' = [tasks EXCEPT ![i] =
                      IF ok THEN [@ EXCEPT !.pc = "inference",
                                           !.called = @ \cup {"inference"}]
                            ELSE CatchError(@, "persist")]
    /\ lastCall' = "event"
    /\ UNCHANGED auxVars
    /\ UNCHANGED <<sessionVars, nextChunk, nticks>>

\* A resolution that files the result by window: before the results of every
\* later invocation.
InferenceResolvedInWindowOrder(i) ==
    /\ tasks[i].pc = "inference"
    /\ LET earlier == SelectSeq(transcriptionResults, LAMBDA e : e.task < i)
           later == SelectSeq(transcriptionResults, LAMBDA e : e.task > i)
       IN transcriptionResults' =
             earlier \o <<[sess |-> tasks[i].sess, task |-> i]>> \o later
    /\ resultsContainer' = <<i>> \o resultsContainer
    /\ tasks' = [tasks EXCEPT ![i].pc = "done", ![i].ret = "result",
                              ![i].called = @ \cup {"display"}]
    /\ lastCall' = "event"
    /\ UNCHANGED auxVars
    /\ UNCHANGED <<isRecording, recordingSubscription, stopRecordingSubject,
                   pipes, nextChunk, nticks>>

\* A resolution whose element is appended after the last child of the
\* container.
InferenceResolvedShownLast(i) ==
    /\ tasks[i].pc = "inference"
    /\ transcriptionResults' =
          Append(transcriptionResults, [sess |-> tasks[i].sess, task |-> i])
    /\ resultsContainer' = Append(resultsContainer, i)
    /\ tasks' = [tasks EXCEPT ![i].pc = "done", ![i].ret = "result",
                              ![i].called = @ \cup {"display"}]
    /\ lastCall' = "event"
    /\ UNCHANGED auxVars
    /\ UNCHANGED <<isRecording, recordingSubscription, stopRecordingSubject,
                   pipes, nextChunk, nticks>>

\* transcribeAudio resolves for invocation i: the result is pushed on
\* transcriptionResults and shown by updateTranscriptionUI (inserted before
\* the first child of the container).
InferenceResolved(i) ==
    /\ tasks[i].pc = "inference"
    /\ transcriptionResults' =
          Append(transcriptionResults, [sess |-> tasks[i].sess, task |-> i])
    /\ resultsContainer' = <<i>> \o resultsContainer
    /\ tasks' = [tasks EXCEPT ![i].pc = "done", ![i].ret = "result",
                              ![i].called = @ \cup {"display"}]
    /\ lastCall' = "event"
    /\ UNCHANGED auxVars
    /\ UNCHANGED <<isRecording, recordingSubscription, stopRecordingSubject,
                   pipes, nextChunk, nticks>>

\* A rejection that also stops the session, as if it reached the error handler
\* of the subscription.
InferenceRejectedStopsSession(i) ==
    /\ tasks[i].pc = "inference"
    /\ tasks' = [tasks EXCEPT ![i] = CatchError(@, "inference")]
    /\ pipes' = Unsubscribe(FireStopSubject(pipes, stopRecordingSubject),
                            recordingSubscription)
    /\ stopRecordingSubject' = Null
    /\ recordingSubscription' = Null
    /\ isRecording' = FALSE
    /\ lastCall' = "event"
    /\ UNCHANGED auxVars
    /\ UNCHANGED <<transcriptionResults, resultsContainer, nextChunk, nticks>>

\* transcribeAudio rejects for invocation i: caught, the invocation returns null.
InferenceRejected(i) ==
    /\ tasks[i].pc = "inference"
    /\ tasks' = [tasks EXCEPT ![i] = CatchError(@, "inference")]
    /\ lastCall' = "event"
    /\ UNCHANGED auxVars
    /\ UNCHANGED <<sessionVars, nextChunk, nticks>>

\* The capture source signals an error on pipeline s: the error handler calls
\* stopIntervalRecording() and the subscriber is then finalized.
CaptureError(s) ==
    /\ pipes[s].subscribed
    /\ LET ps == [pipes EXCEPT ![s] = Teardown(@, "error")] IN
         IF isRecording
         THEN StopEffects(ps)
         ELSE /\ pipes' = ps
              /\ UNCHANGED <<isRecording, recordingSubscription,
                             stopRecordingSubject, tasks>>
    /\ lastCall' = "event"
    /\ UNCHANGED auxVars
    /\ UNCHANGED <<transcriptionResults, resultsContainer, nextChunk, nticks>>

\* The capture source completes on pipeline s: buffer() emits the chunks it
\* holds to the next handler and completes (rxjs 7, the version whose
\* operators are imported from 'rxjs'); the complete handler only logs, so
\* isRecording and the stored references keep their values.
CaptureComplete(s) ==
    /\ pipes[s].subscribed
    /\ \E ok \in BOOLEAN :
          tasks' = NextHandler(tasks, s, pipes[s].currentBuffer, ok)
    /\ pipes' = [pipes EXCEPT ![s] =
                    Teardown([@ EXCEPT !.currentBuffer = <<>>], "complete")]
    /\ lastCall' = "event"
    /\ UNCHANGED auxVars
    /\ UNCHANGED <<isRecording, recordingSubscription, stopRecordingSubject,
                   transcriptionResults, resultsContainer, nextChunk, nticks>>

Next ==
    \/ StartIntervalRecording
    \/ StopIntervalRecording
    \/ \E s \in 1..Len(pipes) : Chunk(s)
    \/ \E s \in 1..Len(pipes) : Tick(s)
    \/ \E s \in 1..Len(pipes) : CaptureError(s)
    \/ \E s \in 1..Len(pipes) : CaptureComplete(s)
    \/ \E i \in 1..Len(tasks) : EncodeSettled(i)
    \/ \E i \in 1..Len(tasks) : PersistSettled(i)
    \/ \E i \in 1..Len(tasks) : InferenceResolved(i)
    \/ \E i \in 1..Len(tasks) : InferenceRejected(i)

Spec == Init /\ [][Next]_allVars

----------------------------------------------------------------------------
\* The end-to-end scenario: start() at 0 s, a capture source that delivers one
\* chunk every ScenarioChunkMs until ScenarioStreamSeconds and then stays
\* silent without completing, a tick every INTERVAL_SECONDS, stop() at
\* ScenarioStopSeconds.  Chunk k arrives at k * ScenarioChunkMs and tick n fires
\* at n * INTERVAL_SECONDS; a chunk and a tick due at the same instant are
\* taken in either order.  The invocations settle at any time.

INTERVAL_SECONDS == 30
ScenarioChunkMs == 100
ScenarioStreamSeconds == 61
ScenarioStopSeconds == 65

ScenarioChunks == (ScenarioStreamSeconds * 1000) \div ScenarioChunkMs
NextChunkTime == nextChunk * ScenarioChunkMs
NextTickTime == (nticks + 1) * INTERVAL_SECONDS * 1000

ScenarioStart ==
    /\ pipes = <<>>
    /\ StartIntervalRecording
    /\ isRecording'

ScenarioChunk ==
    /\ pipes # <<>>
    /\ nextChunk <= ScenarioChunks
    /\ NextChunkTime <= NextTickTime
    /\ Deliver(1)
    /\ UNCHANGED auxVars

ScenarioTick ==
    /\ pipes # <<>>
    /\ NextTickTime <= ScenarioStopSeconds * 1000
    /\ nextChunk > ScenarioChunks \/ NextChunkTime >= NextTickTime
    /\ Emit(1)

ScenarioStop ==
    /\ isRecording
    /\ nextChunk > ScenarioChunks
    /\ NextTickTime > ScenarioStopSeconds * 1000
    /\ StopIntervalRecording

ScenarioNext ==
    \/ ScenarioStart
    \/ ScenarioChunk
    \/ ScenarioTick
    \/ ScenarioStop
    \/ \E i \in 1..Len(tasks) : EncodeSettled(i)
    \/ \E i \in 1..Len(tasks) : PersistSettled(i)
    \/ \E i \in 1..Len(tasks) : InferenceResolved(i)
    \/ \E i \in 1..Len(tasks) : InferenceRejected(i)

ScenarioSpec == Init /\ [][ScenarioNext]_allVars

----------------------------------------------------------------------------
\* One call of resampleAudio, followed statement by statement.  The recorder
\* stays as it is after loading.

Samples == {-1, 0, 1}
Rates == {1, 2, 7, 18}
RatePairs == (Rates \X Rates) \cup {<<DEVICE_SAMPLE_RATE, TARGET_SAMPLE_RATE>>}

RECURSIVE SeqsOfLen(_)
SeqsOfLen(n) ==
    IF n = 0 THEN {<<>>}
    ELSE {Append(x, v) : x \in SeqsOfLen(n - 1), v \in Samples}
LongInput(n) == [k \in 1..n |-> (k % 3) - 1]
Inputs ==
    UNION {SeqsOfLen(n) : n \in 0..MaxLen} \cup {LongInput(n) : n \in (MaxLen + 1)..MaxLongLen}

ResampleInit ==
    /\ RecorderInit
    /\ NoCalls
    /\ \E x \in Inputs, r \in RatePairs :
          resampler = [NoResampleCall EXCEPT !.pc = "call", !.audioData = x,
                                            !.originalSampleRate = r[1],
                                            !.targetSampleRate = r[2]]

\* An entry whose identity return hands back a new, zero-filled array.
ResampleEnterBlank ==
    /\ resampler.pc = "call"
    /\ IF resampler.originalSampleRate = resampler.targetSampleRate
       THEN resampler' = [resampler EXCEPT
                !.pc = "returned",
                !.result = [k \in 1..Len(resampler.audioData) |-> Copied(0)]]
       ELSE LET ratio == Ratio(resampler.originalSampleRate, resampler.targetSampleRate) IN
            resampler' = [resampler EXCEPT
                !.pc = "loop",
                !.ratio = ratio,
                !.newLength = NewLength(Len(resampler.audioData), ratio)]
    /\ UNCHANGED <<recorderVars, emptyChunks, callVars>>

\* Lines 31-36: the identity return, or ratio, newLength and the new array.
ResampleEnter ==
    /\ resampler.pc = "call"
    /\ IF resampler.originalSampleRate = resampler.targetSampleRate
       THEN resampler' = [resampler EXCEPT
                !.pc = "returned",
                !.result = [k \in 1..Len(resampler.audioData) |-> Copied(resampler.audioData[k])]]
       ELSE LET ratio == Ratio(resampler.originalSampleRate, resampler.targetSampleRate) IN
            resampler' = [resampler EXCEPT
                !.pc = "loop",
                !.ratio = ratio,
                !.newLength = NewLength(Len(resampler.audioData), ratio)]
    /\ UNCHANGED <<recorderVars, emptyChunks, callVars>>

\* One iteration of the loop, for i = result elements written so far.
ResampleIterate ==
    /\ resampler.pc = "loop"
    /\ Len(resampler.result) < resampler.newLength
    /\ LET step == Interpolate(resampler.audioData, resampler.ratio, Len(resampler.result)) IN
       resampler' = [resampler EXCEPT
            !.result = Append(@, step.sample),
            !.indexes = Append(@, step.index),
            !.indexesRead = @ \cup step.reads]
    /\ UNCHANGED <<recorderVars, emptyChunks, callVars>>

\* The loop ends and result is returned.
ResampleReturn ==
    /\ resampler.pc = "loop"
    /\ Len(resampler.result) = resampler.newLength
    /\ resampler' = [resampler EXCEPT !.pc = "returned"]
    /\ UNCHANGED <<recorderVars, emptyChunks, callVars>>

ResampleNext == ResampleEnter \/ ResampleIterate \/ ResampleReturn

ResampleSpec == ResampleInit /\ [][ResampleNext]_allVars

----------------------------------------------------------------------------
\* The recorder with a capture source that may also deliver chunks holding no
\* sample (an empty number[]).

\* A chunk without samples arrives, within the bound.
EmptyChunk(s) ==
    /\ nextChunk <= MaxChunks
    /\ Deliver(s)
    /\ emptyChunks' = emptyChunks \cup {nextChunk}
    /\ UNCHANGED <<resampler, callVars>>

EmptyChunkNext ==
    \/ Next
    \/ \E s \in 1..Len(pipes) : EmptyChunk(s)

EmptyChunkSpec == Init /\ [][EmptyChunkNext]_allVars

----------------------------------------------------------------------------
\* One call of nodeAPI.transcribeAudio (preload), which awaits transcribeAudio
\* (stt-transcription.ts).  The response of client.send is drawn when it
\* arrives: the call rejects, or resolves with data whose Body is absent, is
\* not a byte source (decode throws), is not JSON text (JSON.parse throws), or
\* is the JSON text of null or of an object.

ServiceTexts == {"", "hello"}
ServiceConfidences == {1}
ServiceDurations == {1, 7}
Optional(values) == {<<>>} \cup {<<v>> : v \in values}
JsonObjects ==
    [text : Optional(ServiceTexts), confidence : Optional(ServiceConfidences),
     duration : Optional(ServiceDurations)]
Responses ==
    {[body |-> b, value |-> "none", fields |-> NoFields] : b \in {"absent", "notBytes", "notJson"}}
    \cup {[body |-> "json", value |-> "null", fields |-> NoFields]}
    \cup {[body |-> "json", value |-> "object", fields |-> o] : o \in JsonObjects}

TranscribeInit ==
    /\ RecorderInit
    /\ resampler = NoResampleCall
    /\ uiUpdate = NoUiUpdate
    /\ transcribeCall = [NoTranscribeCall EXCEPT !.pc = "call"]

\* Lines 57-73: the client and the command are built, startTime is taken and
\* client.send(command) is called.
TranscribeSend ==
    /\ transcribeCall.pc = "call"
    /\ transcribeCall' = [transcribeCall EXCEPT !.pc = "awaiting", !.sends = @ + 1]
    /\ UNCHANGED <<recorderVars, emptyChunks, resampler, uiUpdate>>

\* client.send rejects: the catch block logs and rethrows.
SendRejected ==
    /\ transcribeCall.pc = "awaiting"
    /\ transcribeCall' = [transcribeCall EXCEPT
            !.pc = "settled", !.settled = "rejected", !.error = "transport"]
    /\ UNCHANGED <<recorderVars, emptyChunks, resampler, uiUpdate>>

\* client.send resolves after `elapsed` milliseconds: duration = endTime - startTime.
SendResolved ==
    /\ transcribeCall.pc = "awaiting"
    /\ \E elapsed \in 0..MaxElapsed, data \in Responses :
          transcribeCall' = [transcribeCall EXCEPT
              !.pc = "received", !.data = data, !.duration = elapsed]
    /\ UNCHANGED <<recorderVars, emptyChunks, resampler, uiUpdate>>

\* { duration, ...jsonObject }: a duration of the service overrides the measured one.
DurationThenSpread(data, duration) ==
    IF data.value = "object" /\ data.fields.duration # <<>>
    THEN data.fields
    ELSE [(IF data.value = "object" THEN data.fields ELSE NoFields) EXCEPT !.duration = <<duration>>]

\* { ...jsonObject, duration }: the fields of the parsed value, then duration.
SpreadThenDuration(data, duration) ==
    [(IF data.value = "object" THEN data.fields ELSE NoFields) EXCEPT !.duration = <<duration>>]

\* Lines 79-90 and the catch block: no Body, a failing decode and a failing
\* JSON.parse throw, and the catch block rethrows; otherwise the record is
\* returned.
TranscribeSettle ==
    /\ transcribeCall.pc = "received"
    /\ transcribeCall' =
          IF transcribeCall.data.body # "json"
          THEN [transcribeCall EXCEPT !.pc = "settled", !.settled = "rejected",
                    !.error = transcribeCall.data.body]
          ELSE [transcribeCall EXCEPT !.pc = "settled", !.settled = "resolved",
                    !.result = SpreadThenDuration(transcribeCall.data, transcribeCall.duration)]
    /\ UNCHANGED <<recorderVars, emptyChunks, resampler, uiUpdate>>

\* The wrapper in the preload script: it returns what transcribeAudio resolved
\* to, or logs and rethrows what it rejected with.
NodeApiSettle ==
    /\ transcribeCall.pc = "settled"
    /\ transcribeCall.returned = "pending"
    /\ transcribeCall' = [transcribeCall EXCEPT !.returned = transcribeCall.settled]
    /\ UNCHANGED <<recorderVars, emptyChunks, resampler, uiUpdate>>

TranscribeNext ==
    \/ TranscribeSend
    \/ SendRejected
    \/ SendResolved
    \/ TranscribeSettle
    \/ NodeApiSettle

TranscribeSpec == TranscribeInit /\ [][TranscribeNext]_allVars

----------------------------------------------------------------------------
\* One call of updateTranscriptionUI, for the text it shows.  An item of an
\* array is [kind, str]: an object with the text str ("withText"), an object
\* without a text field ("noText"), the string str ("string") or null.

Items ==
    {[kind |-> "withText", str |-> t] : t \in {"", "hi", "there"}}
    \cup {[kind |-> "noText", str |-> ""], [kind |-> "string", str |-> "x"],
          [kind |-> "null", str |-> ""]}

RECURSIVE ArraysOfLen(_)
ArraysOfLen(n) ==
    IF n = 0 THEN {<<>>}
    ELSE {Append(a, item) : a \in ArraysOfLen(n - 1), item \in Items}

TextValues ==
    {Undefined, JsonValue("null", "", 0, <<>>, <<>>)}
    \cup {JsonValue(b, "", 0, <<>>, <<>>) : b \in {"true", "false"}}
    \cup {JsonValue("number", "", n, <<>>, <<>>) : n \in {0, 5}}
    \cup {JsonValue("string", t, 0, <<>>, <<>>) : t \in {"", "hello", "two words"}}
    \cup {JsonValue("array", "", 0, a, <<>>) : a \in UNION {ArraysOfLen(n) : n \in 0..MaxItems}}
    \cup {JsonValue("object", "", 0, <<>>, m) : m \in {<<>>, <<<<"a", 1>>>>}}

RECURSIVE Join(_, _)
Join(strs, sep) ==
    IF strs = <<>> THEN ""
    ELSE IF Len(strs) = 1 THEN strs[1]
    ELSE strs[1] \o sep \o Join(Tail(strs), sep)

Digits == <<"0", "1", "2", "3", "4", "5", "6", "7", "8", "9">>
Quoted(str) == "\"" \o str \o "\""

\* String(item)
StringOfItem(item) ==
    IF item.kind = "string" THEN item.str
    ELSE IF item.kind = "null" THEN "null"
    ELSE "[object Object]"

\* JSON.stringify(item)
StringifyItem(item) ==
    IF item.kind = "string" THEN Quoted(item.str)
    ELSE IF item.kind = "null" THEN "null"
    ELSE IF item.kind = "noText" THEN "{}"
    ELSE "{" \o Quoted("text") \o ":" \o Quoted(item.str) \o "}"

\* JSON.stringify(v) for a value that is not undefined.
JsonStringify(v) ==
    IF v.kind \in {"null", "true", "false"} THEN v.kind
    ELSE IF v.kind = "number" THEN Digits[v.num + 1]
    ELSE IF v.kind = "string" THEN Quoted(v.str)
    ELSE IF v.kind = "array"
         THEN "[" \o Join([k \in 1..Len(v.items) |-> StringifyItem(v.items[k])], ",") \o "]"
    ELSE "{" \o Join([k \in 1..Len(v.members) |->
                          Quoted(v.members[k][1]) \o ":" \o Digits[v.members[k][2] + 1]], ",")
             \o "}"

\* if (value): undefined, null, false, 0 and "" do not pass.
Truthy(v) ==
    /\ v.kind \notin {"undefined", "null", "false"}
    /\ v.kind = "number" => v.num # 0
    /\ v.kind = "string" => v.str # ""

\* An extraction without the test if (result.text).
TranscribedTextOfAny(text) ==
    IF text.kind = "array" /\ Len(text.items) > 0
    THEN Join([k \in 1..Len(text.items) |->
                  IF text.items[k].kind = "withText"
                  THEN text.items[k].str
                  ELSE StringOfItem(text.items[k])], " ")
    ELSE IF text.kind = "string" THEN text.str
    ELSE IF text.kind = "undefined" THEN "(No transcription)"
    ELSE JsonStringify(text)

\* Lines 134-157: the text that is shown for result.text.
TranscribedText(text) ==
    IF ~Truthy(text) THEN "(No transcription)"
    ELSE IF text.kind = "array" /\ Len(text.items) > 0
    THEN Join([k \in 1..Len(text.items) |->
                  IF text.items[k].kind = "withText"
                  THEN text.items[k].str
                  ELSE StringOfItem(text.items[k])], " ")
    ELSE IF text.kind = "string" THEN text.str
    ELSE JsonStringify(text)

UiInit ==
    /\ RecorderInit
    /\ resampler = NoResampleCall
    /\ transcribeCall = NoTranscribeCall
    /\ \E v \in TextValues, present \in BOOLEAN :
          uiUpdate = [NoUiUpdate EXCEPT !.pc = "call", !.container = present, !.text = v]

\* Lines 118-119: without the container nothing is done.
UiEnter ==
    /\ uiUpdate.pc = "call"
    /\ uiUpdate' = [uiUpdate EXCEPT !.pc = IF uiUpdate.container THEN "extract" ELSE "returned"]
    /\ UNCHANGED <<recorderVars, emptyChunks, resampler, transcribeCall>>

\* Lines 133-157: transcribedText is worked out.
UiExtract ==
    /\ uiUpdate.pc = "extract"
    /\ uiUpdate' = [uiUpdate EXCEPT !.pc = "extracted",
                                    !.transcribedText = TranscribedText(uiUpdate.text)]
    /\ UNCHANGED <<recorderVars, emptyChunks, resampler, transcribeCall>>

\* Lines 159-168: the text is put into the element and the element is
\* inserted before the first child of the container.
UiShow ==
    /\ uiUpdate.pc = "extracted"
    /\ uiUpdate' = [uiUpdate EXCEPT !.pc = "shown"]
    /\ UNCHANGED <<recorderVars, emptyChunks, resampler, transcribeCall>>

UiNext == UiEnter \/ UiExtract \/ UiShow

UiSpec == UiInit /\ [][UiNext]_allVars

----------------------------------------------------------------------------
\* Observations used by the properties.

\* The chunks of the windows handed to processAudioChunk for session s,
\* concatenated in the order of the handoffs.
Handed(s) ==
    LET f[i \in 0..Len(tasks)] ==
          IF i = 0 THEN <<>>
          ELSE IF tasks[i].sess = s THEN f[i - 1] \o tasks[i].window ELSE f[i - 1]
    IN f[Len(tasks)]

TasksOf(s) == {i \in 1..Len(tasks) : tasks[i].sess = s}

LiveSubscriptions == {s \in 1..Len(pipes) : pipes[s].subscribed}
LiveTimers == {s \in 1..Len(pipes) : pipes[s].timer}

----------------------------------------------------------------------------
\* C1 - No double counting: for every session that was not stopped, the
\* windows handed to processAudioChunk, concatenated in tick order and
\* followed by the chunks still buffered, are exactly the chunks delivered to
\* the session in arrival order; no chunk is in two windows.  This holds
\* whatever the state of the invocations already started.
C1_NoDoubleCounting ==
    /\ \A s \in 1..Len(pipes) :
          pipes[s].ended \in {"no", "complete"} =>
             Handed(s) \o pipes[s].currentBuffer = pipes[s].stream
    /\ \A i, j \in 1..Len(tasks) :
          i # j => Range(tasks[i].window) \cap Range(tasks[j].window) = {}

\* Two windows of a running session were handed off, the first still being
\* processed, and every delivered chunk is in one of them.
C1_Witness ==
    \E s \in 1..Len(pipes) :
       /\ pipes[s].subscribed
       /\ pipes[s].currentBuffer = <<>>
       /\ Len(pipes[s].stream) >= 2
       /\ Cardinality(TasksOf(s)) >= 2
       /\ \E i \in TasksOf(s) : tasks[i].pc # "done"

\* C2 - Stop discards the in-flight window: the chunks buffered when stop()
\* ran are the chunks that arrived after the last tick, and none of them is in
\* a window of any processAudioChunk invocation, so no collaborator is ever
\* called for them.
C2_StopDiscardsWindow ==
    \A s \in 1..Len(pipes) :
       pipes[s].ended = "stop" =>
          /\ Handed(s) \o pipes[s].discarded = pipes[s].stream
          /\ \A i \in 1..Len(tasks) :
                Range(tasks[i].window) \cap Range(pipes[s].discarded) = {}

\* A session with one processed window was stopped while a chunk was buffered.
C2_Witness ==
    \E s \in 1..Len(pipes) :
       /\ pipes[s].ended = "stop"
       /\ pipes[s].discarded # <<>>
       /\ TasksOf(s) # {}

\* C3 - Idempotent start/stop: a call of start() while recording and a call of
\* stop() while idle change nothing of the program state.
C3_IdempotentStartStop ==
    [][ ((lastCall' = "start" /\ isRecording) \/ (lastCall' = "stop" /\ ~isRecording))
          => UNCHANGED <<progVars, nextChunk, nticks>> ]_vars

\* start() was called in a running session that has a result and a buffered
\* chunk: both are still there.
C3_Witness ==
    /\ lastCall = "start"
    /\ isRecording
    /\ transcriptionResults # <<>>
    /\ \E s \in 1..Len(pipes) : pipes[s].subscribed /\ pipes[s].currentBuffer # <<>>

\* C4 - At most one active session: at most one capture subscription and at
\* most one interval timer are live, none while idle, and a live one belongs
\* to the session started last.
C4_AtMostOneSession ==
    /\ Cardinality(LiveSubscriptions) <= 1
    /\ Cardinality(LiveTimers) <= 1
    /\ ~isRecording => LiveSubscriptions = {} /\ LiveTimers = {}
    /\ \A s \in LiveSubscriptions \cup LiveTimers : s = Len(pipes)

\* Right after stop() followed by start(): only the new pipeline is live.
C4_Witness ==
    /\ lastCall = "start"
    /\ Len(pipes) = 2
    /\ pipes[1].ended = "stop"
    /\ LiveSubscriptions = {2}
    /\ LiveTimers = {2}

\* C5 - Session reset: a start() executed while idle leaves the result list
\* empty.
C5_SessionReset ==
    [][ (lastCall' = "start" /\ ~isRecording) => transcriptionResults' = <<>> ]_vars

\* start() ran after a session that had produced a result, and the list is empty.
C5_Witness ==
    /\ lastCall = "start"
    /\ isRecording
    /\ transcriptionResults = <<>>
    /\ \E i \in 1..Len(tasks) : tasks[i].ret = "result"

\* C6 - Stale results are kept out of a new session: every element of the
\* result list comes from a window of the session started last.
C6_NoStaleResults ==
    \A k \in 1..Len(transcriptionResults) :
       transcriptionResults[k].sess = Len(pipes)

\* Invocation i has just failed: it is new or was pending, and has returned
\* null after a failure of one of the steps in `steps`.
FailsNow(i, steps) ==
    /\ tasks'[i].ret = "null"
    /\ tasks'[i].failedAt \in steps
    /\ i > Len(tasks) \/ tasks[i].ret = "pending"

\* C7 - Failure isolation: a step in which resampling, encoding or inference
\* fails for a window makes that invocation return null and leaves the flag,
\* the stored subscription and stop subject, the result list, the display and
\* the liveness of every subscription and timer as they were (but for the
\* pipeline whose completion emitted the failing window, which is closed by
\* the completion).
C7_FailureIsolation ==
    [][ (\E i \in 1..Len(tasks') : FailsNow(i, {"resample", "encode", "inference"}))
          => /\ UNCHANGED <<isRecording, recordingSubscription, stopRecordingSubject,
                            transcriptionResults, resultsContainer>>
             /\ Len(pipes') = Len(pipes)
             /\ \A s \in 1..Len(pipes) :
                   \/ pipes[s].ended = "no" /\ pipes'[s].ended = "complete"
                   \/ /\ pipes'[s].subscribed = pipes[s].subscribed
                      /\ pipes'[s].timer = pipes[s].timer ]_vars

\* A window of a running session failed at inference, a later window of the
\* same session was processed to a result, and the session is still live.
C7_Witness ==
    \E i, j \in 1..Len(tasks) :
       /\ i < j
       /\ tasks[i].sess = tasks[j].sess
       /\ tasks[i].ret = "null" /\ tasks[i].failedAt = "inference"
       /\ tasks[j].ret = "result"
       /\ isRecording
       /\ pipes[tasks[i].sess].subscribed /\ pipes[tasks[i].sess].timer
       /\ transcriptionResults = <<[sess |-> tasks[j].sess, task |-> j]>>

\* C8 as stated - persistence failure does not abort the segment: an
\* invocation whose writeFile failed has still called transcribeAudio.
C8_PersistFailureContinues ==
    \A i \in 1..Len(tasks) :
       tasks[i].failedAt = "persist" => "inference" \in tasks[i].called

\* C8 as amended - persistence failure aborts the segment: an invocation whose
\* writeFile failed has returned null, has called neither transcribeAudio nor
\* the display, and has no element in the result list.
C8_PersistFailureAbortsSegment ==
    \A i \in 1..Len(tasks) :
       tasks[i].failedAt = "persist" =>
          /\ tasks[i].pc = "done" /\ tasks[i].ret = "null"
          /\ tasks[i].called = {"resample", "encode", "persist"}
          /\ \A k \in 1..Len(transcriptionResults) : transcriptionResults[k].task # i

\* writeFile failed for a window of a session that is still running.
C8_Witness ==
    \E i \in 1..Len(tasks) :
       /\ tasks[i].failedAt = "persist"
       /\ isRecording
       /\ pipes[tasks[i].sess].subscribed

\* C9 - Tick handoffs are independent: whatever invocations are pending, a live
\* pipeline accepts the next chunk and its next tick hands the window off (as
\* long as the bounds of the model leave a chunk or a tick to take).
C9_IndependentHandoffs ==
    \A s \in 1..Len(pipes) :
       (pipes[s].subscribed /\ pipes[s].timer) =>
          /\ nextChunk <= MaxChunks => ENABLED Chunk(s)
          /\ nticks < MaxTicks => ENABLED Tick(s)

\* Two invocations of one running session are in flight at once.
C9_Witness ==
    \E i, j \in 1..Len(tasks) :
       /\ i < j
       /\ tasks[i].sess = tasks[j].sess
       /\ tasks[i].pc # "done" /\ tasks[j].pc # "done"
       /\ pipes[tasks[i].sess].subscribed

\* C10 - Empty-window skip: a tick of a pipeline whose buffer is empty starts
\* no invocation (so no collaborator is called) and leaves the result list
\* and the display unchanged.
C10_EmptyWindowSkip ==
    [][ (/\ nticks' = nticks + 1
         /\ pipes' = pipes
         /\ \E s \in 1..Len(pipes) :
               pipes[s].subscribed /\ pipes[s].timer /\ pipes[s].currentBuffer = <<>>)
          => UNCHANGED <<tasks, transcriptionResults, resultsContainer>> ]_vars

\* Two ticks have fired, one on an empty buffer: one invocation exists.
C10_Witness ==
    /\ nticks = 2
    /\ Len(tasks) = 1
    /\ isRecording
    /\ \E s \in 1..Len(pipes) : pipes[s].subscribed /\ pipes[s].currentBuffer = <<>>

\* C11 - Capture-source error acts as stop(): while the session started last
\* is one ended by a capture error, the recorder is in the state stop() leaves:
\* idle, nothing subscribed, no timer, both stored references cleared, and the
\* chunks buffered at the error in no window.
C11_CaptureErrorActsAsStop ==
    (Len(pipes) >= 1 /\ pipes[Len(pipes)].ended = "error") =>
       /\ ~isRecording
       /\ LiveSubscriptions = {} /\ LiveTimers = {}
       /\ stopRecordingSubject = Null
       /\ recordingSubscription = Null
       /\ \A i \in 1..Len(tasks) :
             Range(tasks[i].window) \cap Range(pipes[Len(pipes)].discarded) = {}

\* C12 - Capture-stream termination force-stops the session: while the
\* session started last is one whose capture source completed, the recorder is
\* idle, so that a call of start() begins a new session.
C12_CompletionForceStops ==
    (Len(pipes) >= 1 /\ pipes[Len(pipes)].ended = "complete") => ~isRecording

\* C13 - End-to-end scenario: in the scenario at most two windows are ever
\* handed to processAudioChunk, and once stop() has run exactly two were; they
\* hold the chunks delivered up to the tick at 60 s, and the chunks delivered
\* after it (ten, or eleven when the chunk due at 60 s follows the tick) are
\* in no window.
C13_ScenarioTwoWindows ==
    /\ Len(tasks) <= 2
    /\ (pipes # <<>> /\ pipes[1].ended = "stop") =>
          /\ Len(tasks) = 2
          /\ nticks = 2
          /\ Len(pipes[1].stream) = ScenarioChunks
          /\ Handed(1) \o pipes[1].discarded = pipes[1].stream
          /\ Len(pipes[1].discarded) \in {10, 11}
          /\ \A i \in 1..Len(tasks) :
                Range(tasks[i].window) \cap Range(pipes[1].discarded) = {}

\* stop() has run at 65 s, after both windows were processed to a result.
C13_Witness ==
    /\ pipes # <<>> /\ pipes[1].ended = "stop"
    /\ Len(tasks) = 2
    /\ tasks[1].ret = "result" /\ tasks[2].ret = "result"
    /\ pipes[1].discarded # <<>>

\* The length round-half-up gives for n / d, and whether n / d lies half way
\* between two integers.
RoundHalfUp(n, d) == (2 * n + d) \div (2 * d)
HalfWay(n, d) == (2 * n) % d = 0 /\ ((2 * n) \div d) % 2 = 1

ResampleLoopEntered == resampler.pc \in {"loop", "returned"} /\
                       resampler.originalSampleRate # resampler.targetSampleRate

\* C14 (as stated): for distinct rates the length of the result is
\* len(x) * r2 / r1 rounded half up, and an empty input gives an empty result.
C14_ResamplingLength ==
    ResampleLoopEntered =>
        /\ resampler.newLength = RoundHalfUp(Len(resampler.audioData) * resampler.targetSampleRate,
                                             resampler.originalSampleRate)
        /\ resampler.pc = "returned" => Len(resampler.result) = resampler.newLength

\* C14 (amended): the length of the result is Math.round(len(x) / (r1 / r2)) in
\* double arithmetic: len(x) * r2 / r1 rounded half up, except that half way
\* between two integers it is that number or one less; an empty input gives an
\* empty result.
C14_ResamplingLengthInDoubles ==
    ResampleLoopEntered =>
        LET n == Len(resampler.audioData) * resampler.targetSampleRate
            d == resampler.originalSampleRate
        IN /\ resampler.newLength \in {RoundHalfUp(n, d), RoundHalfUp(n, d) - 1}
           /\ ~HalfWay(n, d) => resampler.newLength = RoundHalfUp(n, d)
           /\ resampler.audioData = <<>> => resampler.newLength = 0
           /\ resampler.pc = "returned" => Len(resampler.result) = resampler.newLength

\* C14 witness: a call with distinct rates has returned a result one shorter
\* than round-half-up gives, and another kind of call a result of that length.
C14_Witness ==
    /\ resampler.pc = "returned"
    /\ resampler.originalSampleRate # resampler.targetSampleRate
    /\ HalfWay(Len(resampler.audioData) * resampler.targetSampleRate, resampler.originalSampleRate)
    /\ Len(resampler.result) + 1 =
           RoundHalfUp(Len(resampler.audioData) * resampler.targetSampleRate,
                       resampler.originalSampleRate)

\* C15: for a non-empty input, every index of audioData that is read lies in
\* 0..length-1, and an output sample whose index Math.floor(i * ratio) is at
\* or past length-1 is the last input sample itself.
C15_NoOutOfBoundsRead ==
    resampler.audioData # <<>> =>
        /\ resampler.indexesRead \subseteq 0..(Len(resampler.audioData) - 1)
        /\ ResampleLoopEntered =>
              \A k \in 1..Len(resampler.result) :
                  resampler.indexes[k] >= Len(resampler.audioData) - 1 =>
                      resampler.result[k] =
                          Copied(resampler.audioData[Len(resampler.audioData)])

\* C15 witness: an upsampling call has returned; it interpolated between two
\* different samples, read every index including the last one, and its last
\* output sample comes from the clamp.
C15_Witness ==
    /\ resampler.pc = "returned"
    /\ resampler.originalSampleRate < resampler.targetSampleRate
    /\ Len(resampler.audioData) >= 2
    /\ resampler.indexesRead = 0..(Len(resampler.audioData) - 1)
    /\ \E k \in 1..Len(resampler.result) :
          ~resampler.result[k].exact /\ resampler.result[k].lo # resampler.result[k].hi
    /\ resampler.indexes[Len(resampler.result)] >= Len(resampler.audioData) - 1

\* The element o of a result has the value v: it is v itself, or it is
\* interpolated between two samples that are both v.
SampleIs(o, v) == o.lo = v /\ (o.exact \/ o.hi = v)

SingleSampleDownsampling ==
    /\ resampler.pc = "returned"
    /\ resampler.originalSampleRate > resampler.targetSampleRate
    /\ Len(resampler.result) = 1

\* C16 (as stated): when downsampling leaves one output sample, that sample
\* equals the last input sample.
C16_ClampProperty ==
    SingleSampleDownsampling =>
        SampleIs(resampler.result[1], resampler.audioData[Len(resampler.audioData)])

\* C16 (amended): when downsampling leaves one output sample, that sample is
\* the first input sample, taken at position 0 with fraction 0.
C16_SingleSampleIsFirst ==
    SingleSampleDownsampling =>
        /\ resampler.audioData # <<>>
        /\ resampler.indexes = <<0>>
        /\ resampler.result[1].exact
        /\ resampler.result[1].lo = resampler.audioData[1]

\* C16 witness: a downsampling call has returned one sample, the first of an
\* input whose last sample is a different one.
C16_Witness ==
    /\ SingleSampleDownsampling
    /\ resampler.audioData[1] # resampler.audioData[Len(resampler.audioData)]
    /\ SampleIs(resampler.result[1], resampler.audioData[1])

\* C17: a call with equal rates returns its input: same length, same values
\* in the same order, and no interpolation step is taken.
C17_IdentityResampling ==
    (resampler.pc = "returned" /\
     resampler.originalSampleRate = resampler.targetSampleRate) =>
        /\ Len(resampler.result) = Len(resampler.audioData)
        /\ \A k \in 1..Len(resampler.audioData) :
              resampler.result[k] = Copied(resampler.audioData[k])
        /\ resampler.indexes = <<>>

\* C17 witness: a call with equal rates has returned an input of two
\* different samples.
C17_Witness ==
    /\ resampler.pc = "returned"
    /\ resampler.originalSampleRate = resampler.targetSampleRate
    /\ Len(resampler.audioData) = 2
    /\ resampler.audioData[1] # resampler.audioData[2]
    /\ resampler.result = <<Copied(resampler.audioData[1]), Copied(resampler.audioData[2])>>

\* C18: an invocation of processAudioChunk whose window holds chunks that are
\* all empty returns null at once and calls nothing.
C18_EmptyConcatenationSkipped ==
    \A i \in 1..Len(tasks) :
        (tasks[i].window # <<>> /\ Range(tasks[i].window) \subseteq emptyChunks) =>
            /\ tasks[i].called = {}
            /\ tasks[i].ret = "null"

\* C19: a window is handed to processAudioChunk only by an interval tick: a
\* step that starts an invocation is a tick step.
C19_HandoffOnlyOnTick ==
    [][Len(tasks') > Len(tasks) => nticks' = nticks + 1]_allVars

\* The invocations whose inference call completes with a result in this step.
CompletedNow == {i \in 1..Len(tasks) : tasks[i].ret = "pending" /\ tasks'[i].ret = "result"}

\* C20: the result list is in completion order: a step in which the inference
\* call of an invocation completes appends that result at the end, whatever
\* its window, and any other step leaves the list as it is or, at a start,
\* empties it; nothing reorders it.
C20_CompletionOrder ==
    [][/\ \A i \in CompletedNow :
             transcriptionResults' =
                 Append(transcriptionResults, [sess |-> tasks[i].sess, task |-> i])
       /\ CompletedNow = {} =>
             \/ transcriptionResults' = transcriptionResults
             \/ transcriptionResults' = <<>> /\ lastCall' = "start"]_allVars

\* C20 witness: in one session the result of a later window precedes the
\* result of an earlier window in the list.
C20_Witness ==
    \E a, b \in 1..Len(transcriptionResults) :
        /\ a < b
        /\ transcriptionResults[a].sess = transcriptionResults[b].sess
        /\ transcriptionResults[a].task > transcriptionResults[b].task
        /\ tasks[transcriptionResults[a].task].window # <<>>

\* C21: stop() does not cancel work in flight: a stop step leaves every
\* invocation as it is, an invocation waiting for its inference call can always
\* have it succeed, whether the recorder is recording or not, and when it
\* succeeds while the recorder is idle its result is appended to the result
\* list and shown.
C21_StopKeepsInFlightWork ==
    /\ [](\A i \in 1..Len(tasks) :
             tasks[i].pc = "inference" => ENABLED InferenceResolved(i))
    /\ [][/\ lastCall' = "stop" => tasks' = tasks
          /\ \A i \in CompletedNow :
                ~isRecording =>
                    /\ transcriptionResults' =
                          Append(transcriptionResults, [sess |-> tasks[i].sess, task |-> i])
                    /\ resultsContainer' = <<i>> \o resultsContainer]_allVars

\* C21 witness: stop() has just run on a recording session, the recorder is
\* idle, and an invocation handed off before the stop still waits for its
\* inference call.
C21_Witness ==
    /\ lastCall = "stop"
    /\ ~isRecording
    /\ \E i \in 1..Len(tasks) :
          /\ tasks[i].pc = "inference"
          /\ pipes[tasks[i].sess].ended = "stop"
          /\ ENABLED InferenceResolved(i)

\* C22: the result list is append-only and emptied only by a start from idle:
\* every step leaves it unchanged, or appends one result at its end while one
\* inference call succeeds, or empties it in a start() that finds the recorder
\* idle; a step of any other kind leaves it as it is.
C22_AppendOnlyResults ==
    [][\/ transcriptionResults' = transcriptionResults
       \/ /\ Cardinality(CompletedNow) = 1
          /\ Len(transcriptionResults') = Len(transcriptionResults) + 1
          /\ SubSeq(transcriptionResults', 1, Len(transcriptionResults)) = transcriptionResults
          /\ transcriptionResults'[Len(transcriptionResults')].task \in CompletedNow
       \/ /\ transcriptionResults' = <<>>
          /\ lastCall' = "start"
          /\ ~isRecording]_allVars

\* C22 witness: a start from idle has just emptied a list that held the result
\* of an earlier session.
C22_Witness ==
    /\ lastCall = "start"
    /\ isRecording
    /\ transcriptionResults = <<>>
    /\ Len(pipes) = 2
    /\ \E i \in 1..Len(tasks) : tasks[i].ret = "result" /\ tasks[i].sess = 1

\* C23: transcribeAudio rejects exactly when the transport call errors, the
\* body is absent, or decoding or parsing fails; otherwise it resolves to the
\* parsed record with duration set to the measured round trip, in the place of
\* any duration the service sent; client.send is called once, never again.
C23_InferenceFailsByPropagating ==
    /\ transcribeCall.sends <= 1
    /\ transcribeCall.pc = "settled" =>
          /\ transcribeCall.sends = 1
          /\ transcribeCall.settled = "rejected" <=>
                \/ transcribeCall.error = "transport"
                \/ transcribeCall.data.body \in {"absent", "notBytes", "notJson"}
          /\ transcribeCall.settled = "resolved" =>
                /\ transcribeCall.result.duration = <<transcribeCall.duration>>
                /\ transcribeCall.data.value = "object" =>
                      /\ transcribeCall.result.text = transcribeCall.data.fields.text
                      /\ transcribeCall.result.confidence = transcribeCall.data.fields.confidence
          /\ transcribeCall.returned \in {"pending", transcribeCall.settled}

\* C23 witness: the call has returned, through the preload wrapper, a record
\* whose measured duration replaced a different duration sent by the service.
C23_Witness ==
    /\ transcribeCall.returned = "resolved"
    /\ transcribeCall.data.fields.duration # <<>>
    /\ transcribeCall.data.fields.duration # <<transcribeCall.duration>>
    /\ transcribeCall.result.duration = <<transcribeCall.duration>>
    /\ transcribeCall.result.text = <<"hello">>

\* The texts of the items of an array, and whether each item is a sub-record
\* with a text field.
ItemTexts(items) == [k \in 1..Len(items) |-> items[k].str]
AllWithText(items) == \A k \in 1..Len(items) : items[k].kind = "withText"
TextExtracted == uiUpdate.pc \in {"extracted", "shown"}

\* C24 (as stated): for every value of result.text the text shown is the string
\* itself, or the text values of an array of sub-records joined with single
\* spaces, or the stringified value for any other JSON value; the empty string
\* and the empty array included.
C24_TextExtraction ==
    (TextExtracted /\ uiUpdate.text.kind # "undefined") =>
        uiUpdate.transcribedText =
            IF uiUpdate.text.kind = "string" THEN uiUpdate.text.str
            ELSE IF uiUpdate.text.kind = "array" /\ AllWithText(uiUpdate.text.items)
                 THEN Join(ItemTexts(uiUpdate.text.items), " ")
            ELSE JsonStringify(uiUpdate.text)

\* C24 (amended): a value that is missing or falsy (null, false, 0, the empty
\* string) is shown as "(No transcription)"; a non-empty string is shown as
\* itself; a non-empty array is shown as its items joined with single spaces,
\* an item being its text field or, without one, String(item); every other
\* value, the empty array included, is shown stringified ("[]").
C24_TextExtractionByShape ==
    TextExtracted =>
        LET v == uiUpdate.text
            shown == uiUpdate.transcribedText
        IN /\ v.kind \in {"undefined", "null", "false"} => shown = "(No transcription)"
           /\ (v.kind = "number" /\ v.num = 0) => shown = "(No transcription)"
           /\ v.kind = "string" =>
                 shown = IF v.str = "" THEN "(No transcription)" ELSE v.str
           /\ (v.kind = "array" /\ v.items = <<>>) => shown = "[]"
           /\ (v.kind = "array" /\ v.items # <<>> /\ AllWithText(v.items)) =>
                 shown = Join(ItemTexts(v.items), " ")
           /\ (v.kind = "array" /\ v.items # <<>>) =>
                 shown = Join([k \in 1..Len(v.items) |->
                                 IF v.items[k].kind = "withText" THEN v.items[k].str
                                 ELSE IF v.items[k].kind = "string" THEN v.items[k].str
                                 ELSE IF v.items[k].kind = "null" THEN "null"
                                 ELSE "[object Object]"], " ")
           /\ v.kind = "true" => shown = "true"
           /\ (v.kind = "number" /\ v.num = 5) => shown = "5"
           /\ (v.kind = "object" /\ v.members = <<>>) => shown = "{}"
           /\ (v.kind = "object" /\ v.members # <<>>) => shown = JsonStringify(v)
           /\ v = JsonValue("array", "", 0, <<[kind |-> "withText", str |-> "hi"],
                                              [kind |-> "withText", str |-> "there"]>>, <<>>)
                 => shown = "hi there"

\* C24 witness: the text of a result whose text is the empty string has been
\* put on the page as "(No transcription)".
C24_Witness ==
    /\ uiUpdate.pc = "shown"
    /\ uiUpdate.text.kind = "string"
    /\ uiUpdate.text.str = ""
    /\ uiUpdate.transcribedText = "(No transcription)"

\* The results of the list, newest first, by the invocation each came from.
NewestFirst ==
    [k \in 1..Len(transcriptionResults) |->
        transcriptionResults[Len(transcriptionResults) + 1 - k].task]

\* C25: with the container on the page, the entries shown are the results of
\* the list, newest first, one entry per result; a start() from idle empties
\* both in one step, and a step in which an inference call succeeds adds one
\* entry to each.
C25_DisplayInStepWithList ==
    /\ [](resultsContainer = NewestFirst)
    /\ [][/\ (lastCall' = "start" /\ ~isRecording) =>
                (transcriptionResults' = <<>> /\ resultsContainer' = <<>>)
          /\ \A i \in CompletedNow :
                /\ Len(transcriptionResults') = Len(transcriptionResults) + 1
                /\ Len(resultsContainer') = Len(resultsContainer) + 1
                /\ Head(resultsContainer') = i]_allVars

\* C25 witness: two results of different windows are in the list and on the
\* page, the later one first on the page.
C25_Witness ==
    /\ Len(transcriptionResults) = 2
    /\ transcriptionResults[1].task # transcriptionResults[2].task
    /\ resultsContainer = <<transcriptionResults[2].task, transcriptionResults[1].task>>

====
